---- MODULE Spec2Model ----
(***************************************************************************)
(* The install command of pac: src/cmd/install.rs (exec, install_plugins,  *)
(* install_plugin, do_install) over the package records and the manifest   *)
(* store of src/package.rs.  The worker pool (crate::task::TaskManager)    *)
(* and the clone primitive (crate::git::clone) are not part of the source  *)
(* at hand; they are modelled from sections 4.4, 5 and 6 of the design.    *)
(* The Spinner of src/utils.rs is modelled at the end, on its own.         *)
(***************************************************************************)
EXTENDS Naturals, Integers, Sequences, FiniteSets, TLC

VARIABLES
    pc,        \* position of the orchestrating thread
    args,      \* InstallArgs as parsed from the command line
    plugins,   \* the Plugins value built by exec
    file,      \* paconfig.yaml on disk
    script,    \* _pac.vim on disk
    dirs,      \* the package directories that exist under pack/
    packs,     \* install_plugins: the in-memory list `packs`
    jobs,      \* the packages added to the TaskManager, in order
    nextJob,   \* index of the next job of the shared queue
    worker,    \* per worker: what it is doing and on which job
    fails,     \* names reported with continue_flag = false
    \* history, read by the properties only
    loaded,    \* the list fetch() returned
    dirs0,     \* the directories that existed when the run began
    file0,     \* the manifest file as it was when the run began
    started,   \* per job: how many times a worker began it
    outcome,   \* per job: result of install_plugin
    sawDir,    \* per job: did its target exist when do_install looked
    fileReads, \* number of times the manifest file was read
    fileWrites, \* number of times the manifest file was created/written
    \* src/utils.rs: the Spinner
    spin_pc,   \* position of the spinner thread in its loop
    stop_pc,   \* position of the thread that owns the Spinner value
    rx,        \* the messages sent on the channel and not yet received
    frame,     \* index into SPINNER_CHARS of the character shown next
    pos,       \* the screen position (x, y) given to spin
    screen     \* the character last written at that position, if any

spinVars == <<spin_pc, stop_pc, rx, frame, pos, screen>>

vars == <<pc, args, plugins, file, script, dirs, packs, jobs, nextJob, worker,
          fails, loaded, dirs0, file0, started, outcome, sawDir, fileReads,
          fileWrites, spin_pc, stop_pc, rx, frame, pos, screen>>

---------------------------------------------------------------------------
(* Bounds of the explored input space *)

MaxReq == 3        \* longest list of names in the pool runs
MaxThreads == 2    \* largest --threads value
MaxMergeReq == 2   \* longest list of names in the reconciliation runs

Names == {"a", "b"}
NameOrder == <<"a", "b">>          \* String::cmp on the names above
Categories == {"x", "y"}

\* Option<T>: None is the empty sequence, Some(v) the one-element sequence
None == <<>>
Some(v) == <<v>>
IsSome(o) == Len(o) = 1
Unwrap(o) == o[1]

Range(s) == {s[i] : i \in 1..Len(s)}
SeqsUpTo(S, n) == UNION {[1..k -> S] : k \in 0..n}

---------------------------------------------------------------------------
(* src/package.rs: the package record *)

\* Package::new as install_plugins calls it (name, category, opt); the
\* repository cloned is the one the name designates (git::clone(&pack.name, ..))
Package_new(name, category, opt) ==
    [name |-> name, remote |-> name, reference |-> None,
     category |-> category, opt |-> opt,
     load_command |-> None, for_types |-> <<>>, build_command |-> None]

set_category(p, cat) == [p EXCEPT !.category = cat]
set_opt(p, opt) == [p EXCEPT !.opt = opt]
set_types(p, types) == [p EXCEPT !.for_types = types]
set_load_command(p, c) == [p EXCEPT !.load_command = Some(c)]
set_build_command(p, c) == [p EXCEPT !.build_command = Some(c)]

\* Package::path, relative to VIM_PACKAGE_DIR
path(p) == <<p.category, IF p.opt THEN "opt" ELSE "start", p.name>>

\* Package::is_installed against the directories d
is_installed(p, d) == path(p) \in d

---------------------------------------------------------------------------
(* src/package.rs: the manifest format.  The value a list item of           *)
(* paconfig.yaml holds under a key is <<>> when the key is missing, <<v>>   *)
(* when the value has the YAML type the program reads the key with (v a     *)
(* string, a boolean, the sequence of the elements of a list or of the      *)
(* entries of a mapping) and <<"other", text>> when it has another type.    *)

Other(text) == <<"other", text>>

\* Yaml::as_str / as_bool / as_vec / as_hash: None unless the type is the one asked
as_str(node) == IF Len(node) = 1 THEN node ELSE None
as_bool(node) == IF Len(node) = 1 THEN node ELSE None
as_vec(node) == IF Len(node) = 1 THEN node ELSE None
as_hash(node) == IF Len(node) = 1 THEN node ELSE None

\* strings that the YAML scalar rules read as a boolean, an integer or a real
YamlScalars == {"true", "1", "1.0"}

\* Yaml::from_str(s): Yaml::String only when s is no other scalar
Yaml_from_str(s) == IF s \in YamlScalars THEN Other(s) ELSE Some(s)

\* GitReference::new(kind, value): the kinds are branch, tag and commit
RefKinds == {"branch", "tag", "commit"}
GitReference_new(kind, value) ==
    IF kind \in RefKinds THEN Some([kind |-> kind, value |-> value]) ELSE None

\* from_yaml: the match on doc["ref"].as_hash(); Err is None, Ok(r) is Some(r)
reference_from_yaml(doc) ==
    IF as_hash(doc.ref) = None THEN Some(None)
    ELSE LET subdoc == Unwrap(as_hash(doc.ref))
         IN  IF subdoc = <<>> THEN None
             ELSE IF as_str(subdoc[1].k) = None \/ as_str(subdoc[1].v) = None THEN None
             ELSE LET r == GitReference_new(Unwrap(as_str(subdoc[1].k)),
                                            Unwrap(as_str(subdoc[1].v)))
                  IN  IF r = None THEN None ELSE Some(r)

\* from_yaml with the elements of `for` that are no strings left out
types_from_yaml_SkipOdd(doc) ==
    IF as_vec(doc.for) = None THEN Some(<<>>)
    ELSE LET f == SelectSeq(Unwrap(as_vec(doc.for)), LAMBDA e : as_str(e) # None)
         IN  Some([i \in 1..Len(f) |-> Unwrap(as_str(f[i]))])

\* from_yaml: the match on doc["for"].as_vec(); Err is None, Ok(t) is Some(t)
types_from_yaml(doc) ==
    IF as_vec(doc.for) = None THEN Some(<<>>)
    ELSE LET f == Unwrap(as_vec(doc.for))
         IN  IF \E i \in 1..Len(f) : as_str(f[i]) = None THEN None
             ELSE Some([i \in 1..Len(f) |-> Unwrap(as_str(f[i]))])

\* Package::from_yaml: Result<Package>, Err(Error::Format) is None
from_yaml(doc) ==
    IF \/ as_str(doc.name) = None \/ as_str(doc.remote) = None
       \/ reference_from_yaml(doc) = None
       \/ as_bool(doc.opt) = None \/ as_str(doc.category) = None
       \/ types_from_yaml(doc) = None
    THEN None
    ELSE Some([name |-> Unwrap(as_str(doc.name)),
               remote |-> Unwrap(as_str(doc.remote)),
               reference |-> Unwrap(reference_from_yaml(doc)),
               category |-> Unwrap(as_str(doc.category)),
               opt |-> Unwrap(as_bool(doc.opt)),
               load_command |-> as_str(doc.on),
               for_types |-> Unwrap(types_from_yaml(doc)),
               build_command |-> as_str(doc.build)])

\* Package::into_yaml
into_yaml(p) ==
    [name |-> Yaml_from_str(p.name),
     remote |-> Yaml_from_str(p.remote),
     category |-> Yaml_from_str(p.category),
     opt |-> Some(p.opt),
     ref |-> IF IsSome(p.reference)
             THEN Some(<<[k |-> Yaml_from_str(Unwrap(p.reference).kind),
                          v |-> Yaml_from_str(Unwrap(p.reference).value)]>>)
             ELSE None,
     on |-> IF IsSome(p.load_command) THEN Yaml_from_str(Unwrap(p.load_command)) ELSE None,
     build |-> IF IsSome(p.build_command) THEN Yaml_from_str(Unwrap(p.build_command))
               ELSE None,
     for |-> IF p.for_types # <<>>
             THEN Some([i \in 1..Len(p.for_types) |-> Yaml_from_str(p.for_types[i])])
             ELSE None]

\* (mutant) items that fail to parse are skipped
fetch_from_paconfig_SkipBad(f) ==
    IF ~f.parses THEN None
    ELSE LET good == SelectSeq(f.docs, LAMBDA doc : from_yaml(doc) # None)
         IN  Some([i \in 1..Len(good) |-> Unwrap(from_yaml(good[i]))])

\* fetch_from_paconfig: Err when the document does not load or any item fails
fetch_from_paconfig(f) ==
    IF ~f.parses \/ \E i \in 1..Len(f.docs) : from_yaml(f.docs[i]) = None
    THEN None
    ELSE Some([i \in 1..Len(f.docs) |-> Unwrap(from_yaml(f.docs[i]))])

\* fetch
fetch(f) == IF f.exists THEN fetch_from_paconfig(f) ELSE Some(<<>>)

\* save: the file as written from the list
save(ps) == [exists |-> TRUE, parses |-> TRUE,
             docs |-> [i \in 1..Len(ps) |-> into_yaml(ps[i])]]

\* update_pac_plugin: one block per package that has a load command or types
HasTrigger(p) == IsSome(p.load_command) \/ p.for_types # <<>>
update_pac_plugin(ps) ==
    LET sel == SelectSeq(ps, HasTrigger)
    IN  [i \in 1..Len(sel) |->
            [name |-> sel[i].name, command |-> sel[i].load_command,
             filetypes |-> sel[i].for_types]]

---------------------------------------------------------------------------
(* src/cmd/install.rs: the reconciliation of install_plugins *)

\* the closure of `targets`: the package built for one requested name
Target(n, pl) ==
    LET p0 == Package_new(n, pl.category, pl.opt)
        p1 == IF IsSome(pl.on) THEN set_load_command(p0, Unwrap(pl.on)) ELSE p0
        p2 == IF IsSome(pl.types) THEN set_types(p1, Unwrap(pl.types)) ELSE p1
    IN  IF IsSome(pl.build) THEN set_build_command(p2, Unwrap(pl.build)) ELSE p2

\* (mutant) the lookup finds nothing
Find_None(ps, name) == 0

\* packs.iter_mut().find(|x| x.name == name): index of the first match, 0 if none
Find(ps, name) ==
    IF \E i \in 1..Len(ps) : ps[i].name = name
    THEN CHOOSE i \in 1..Len(ps) :
            ps[i].name = name /\ \A k \in 1..(i - 1) : ps[k].name # name
    ELSE 0

\* (mutant) the build command of the request is not copied
Supersede_KeepBuild(x, pack) ==
    [set_types(set_opt(set_category(x, pack.category), pack.opt), pack.for_types)
        EXCEPT !.load_command = pack.load_command]

\* the record found is not installed: it is overwritten from the request
Supersede(x, pack) ==
    [set_types(set_opt(set_category(x, pack.category), pack.opt), pack.for_types)
        EXCEPT !.load_command = pack.load_command,
               !.build_command = pack.build_command]

\* (mutant) the request keeps its own placement
Adopt_Nothing(pack, x) == pack

\* the record found is installed: the request takes its placement
Adopt(pack, x) == set_opt(set_category(pack, x.category), x.opt)

\* (mutant) the lookup is skipped: every requested record is appended
MergeOne_AlwaysPush(ps, pack, d) == [packs |-> Append(ps, pack), job |-> pack]

\* one turn of `for mut pack in targets`: the list afterwards and the job added
MergeOne(ps, pack, d) ==
    LET i == Find(ps, pack.name)
    IN  IF i = 0
        THEN [packs |-> Append(ps, pack), job |-> pack]
        ELSE IF ~is_installed(ps[i], d)
             THEN [packs |-> [ps EXCEPT ![i] = Supersede(ps[i], pack)], job |-> pack]
             ELSE [packs |-> ps, job |-> Adopt(pack, ps[i])]

RECURSIVE MergeAll(_, _, _, _, _)
MergeAll(ps, js, names, pl, d) ==
    IF names = <<>>
    THEN [packs |-> ps, jobs |-> js]
    ELSE LET m == MergeOne(ps, Target(Head(names), pl), d)
         IN  MergeAll(m.packs, Append(js, m.job), Tail(names), pl, d)

\* (mutant) an empty request queues nothing
Reconcile_NoBacklog(ps, pl, d) == MergeAll(ps, <<>>, pl.names, pl, d)

\* the list and the jobs that install_plugins hands to the TaskManager
Reconcile(ps, pl, d) ==
    IF pl.names = <<>>
    THEN [packs |-> ps, jobs |-> ps]
    ELSE MergeAll(ps, <<>>, pl.names, pl, d)

\* (mutant) the comparison of retain is inverted
Retain_Inverted(ps, failed) == SelectSeq(ps, LAMBDA e : e.name \in failed)

\* (mutant) one failure empties the list
Retain_AnyFailure(ps, failed) == IF failed = {} THEN ps ELSE <<>>

\* for fail in manager.run(..) { packs.retain(|e| e.name != fail) }
Retain(ps, failed) == SelectSeq(ps, LAMBDA e : e.name \notin failed)

\* install_plugins: the list is handed on in the order the merge left it
SortByName_Unsorted(ps) == ps

\* packs.sort_by(|a, b| a.name.cmp(&b.name)): a stable sort
Rank(n) == CHOOSE i \in 1..Len(NameOrder) : NameOrder[i] = n
RECURSIVE InsertSorted(_, _)
InsertSorted(s, p) ==
    IF s = <<>> THEN <<p>>
    ELSE IF Rank(p.name) < Rank(Head(s).name) THEN <<p>> \o s
    ELSE <<Head(s)>> \o InsertSorted(Tail(s), p)
RECURSIVE SortByName(_)
SortByName(ps) ==
    IF ps = <<>> THEN <<>>
    ELSE InsertSorted(SortByName(SubSeq(ps, 1, Len(ps) - 1)), ps[Len(ps)])

\* do_install up to the decision: the target is present, or a clone is needed
do_install_sees_dir(pack, d) == path(pack) \in d

\* (mutant) a failed clone continues like a successful one
install_plugin_status_Lenient(res) == TRUE

\* install_plugin: the continue flag for a result of do_install
install_plugin_status(res) ==
    CASE res = "PluginInstalled" -> TRUE
      [] res = "Ok" -> TRUE
      [] OTHER -> FALSE

---------------------------------------------------------------------------
(* The inputs explored *)

\* exec: the Plugins value for the arguments a and the thread count t
MakePlugins(a, t) ==
    [names |-> a.plugins,
     category |-> a.category,
     opt |-> (IsSome(a.on) \/ IsSome(a.for_) \/ a.opt),
     on |-> a.on,
     types |-> a.for_,
     build |-> a.build,
     threads |-> t]

\* items of a manifest as the program writes them
Doc(n, c, o, t) ==
    [name |-> Some(n), remote |-> Some(n), category |-> Some(c), opt |-> Some(o),
     ref |-> None, on |-> t.on, build |-> t.build,
     for |-> IF IsSome(t.for)
             THEN Some([i \in 1..Len(Unwrap(t.for)) |-> Some(Unwrap(t.for)[i])])
             ELSE None]
NoTriggers == [on |-> None, for |-> None, build |-> None]
OldTriggers == [on |-> Some("Old"), for |-> Some(<<"vim">>), build |-> Some("old.sh")]
NewTriggers == [on |-> Some("Cmd"), for |-> Some(<<"rs">>), build |-> Some("make")]
GoodDocs ==
    {Doc(n, c, FALSE, NoTriggers) : n \in Names, c \in Categories}
        \cup {Doc(n, c, TRUE, OldTriggers) : n \in Names, c \in Categories}
PlainManifest ==
    [exists |-> TRUE, parses |-> TRUE,
     docs |-> <<Doc("b", "x", FALSE, NoTriggers), Doc("a", "x", FALSE, NoTriggers)>>]
\* items that lack a required key
BadDocs ==
    {[Doc("a", "x", FALSE, NoTriggers) EXCEPT !.name = None],
     [Doc("a", "x", FALSE, NoTriggers) EXCEPT !.remote = None],
     [Doc("a", "x", FALSE, NoTriggers) EXCEPT !.category = None],
     [Doc("a", "x", FALSE, NoTriggers) EXCEPT !.opt = None]}

DistinctNames(ds) == \A i, k \in 1..Len(ds) : i # k => ds[i].name # ds[k].name
ManifestsOf(D) ==
    {[exists |-> TRUE, parses |-> TRUE, docs |-> ds] :
        ds \in {s \in SeqsUpTo(D, Cardinality(Names)) : DistinctNames(s)}}

NoFile == [exists |-> FALSE, parses |-> FALSE, docs |-> <<>>]
Garbage == [exists |-> TRUE, parses |-> FALSE, docs |-> <<>>]
BadFiles ==
    {[exists |-> TRUE, parses |-> TRUE, docs |-> <<Doc("b", "x", FALSE, NoTriggers), b>>] :
        b \in BadDocs}

\* reconciliation runs: every stored placement and trigger against every
\* requested one, one worker
ReconcileArgs ==
    {[plugins |-> ns, on |-> t.on, for_ |-> t.for, threads |-> Some(1), opt |-> o,
      category |-> c, build |-> t.build] :
        ns \in SeqsUpTo(Names, MaxMergeReq), t \in {NoTriggers, NewTriggers},
        o \in BOOLEAN, c \in Categories}
ReconcileFiles == {NoFile} \cup ManifestsOf(GoodDocs)

\* pool runs: longer request lists and every thread count over plain records,
\* starting from no manifest, a manifest of two records or one that fails to load
PoolArgs ==
    [plugins : SeqsUpTo(Names, MaxReq),
     on : {None},
     for_ : {None},
     threads : {None} \cup {Some(t) : t \in 0..MaxThreads},
     opt : {FALSE},
     category : {"x"},
     build : {None}]
PoolFiles == {NoFile, Garbage, PlainManifest} \cup BadFiles

\* the directories the run can look at: those of the stored records and of
\* the requested ones
RelevantPaths(a, f) ==
    {path(Target(n, MakePlugins(a, 1))) : n \in Range(a.plugins)}
        \cup (IF fetch(f) = None THEN {}
              ELSE {path(p) : p \in Range(Unwrap(fetch(f)))})

\* no Spinner has been created
NoSpinner ==
    /\ spin_pc = "none"
    /\ stop_pc = "none"
    /\ rx = <<>>
    /\ frame = 0
    /\ pos = <<0, 0>>
    /\ screen = <<>>

Workers == 1..MaxThreads
Idle == [st |-> "idle", job |-> 0]
Moved == [moved |-> TRUE]

InitWith(A, F) ==
    /\ pc = "exec"
    /\ args \in A
    /\ file \in F
    /\ plugins = Moved
    /\ script = [written |-> FALSE, body |-> <<>>]
    /\ dirs \in SUBSET RelevantPaths(args, file)
    /\ dirs0 = dirs
    /\ file0 = file
    /\ packs = <<>>
    /\ jobs = <<>>
    /\ nextJob = 1
    /\ worker = [w \in Workers |-> Idle]
    /\ fails = {}
    /\ loaded = <<>>
    /\ started = <<>>
    /\ outcome = <<>>
    /\ sawDir = <<>>
    /\ fileReads = 0
    /\ fileWrites = 0
    /\ NoSpinner

PoolInit == InitWith(PoolArgs, PoolFiles)
Init == InitWith(ReconcileArgs, ReconcileFiles) \/ PoolInit

---------------------------------------------------------------------------
(* src/cmd/install.rs: the orchestrating thread *)

\* exec: a run with the check on the thread count left out
ThreadsRejected_Never(threads) == FALSE

\* exec: if threads < 1 { die!("Threads should be greater than 0") }
ThreadsRejected(threads) == threads < 1

\* exec: the thread count is settled and checked, the Plugins value built
Exec ==
    /\ pc = "exec"
    /\ \E t \in IF IsSome(args.threads) THEN {Unwrap(args.threads)} ELSE 1..MaxThreads :
          IF ThreadsRejected(t)
          THEN /\ pc' = "died"
               /\ UNCHANGED <<args, plugins>>
          ELSE /\ pc' = "fetch"
               /\ plugins' = MakePlugins(args, t)
               /\ args' = Moved
    /\ UNCHANGED <<file, script, dirs, packs, jobs, nextJob, worker, fails, loaded,
                   dirs0, file0, started, outcome, sawDir, fileReads, fileWrites>>
    /\ UNCHANGED spinVars

\* install_plugins: let mut packs = package::fetch()?
Fetch ==
    /\ pc = "fetch"
    /\ fileReads' = IF file.exists THEN fileReads + 1 ELSE fileReads
    /\ IF fetch(file) = None
       THEN /\ pc' = "aborted"
            /\ UNCHANGED <<packs, loaded>>
       ELSE /\ pc' = "merge"
            /\ packs' = Unwrap(fetch(file))
            /\ loaded' = Unwrap(fetch(file))
    /\ UNCHANGED <<args, plugins, file, script, dirs, jobs, nextJob, worker, fails,
                   dirs0, file0, started, outcome, sawDir, fileWrites>>
    /\ UNCHANGED spinVars

\* install_plugins: the TaskManager is created and filled, then run
Merge ==
    /\ pc = "merge"
    /\ LET m == Reconcile(packs, plugins, dirs)
       IN  /\ packs' = m.packs
           /\ jobs' = m.jobs
           /\ started' = [j \in 1..Len(m.jobs) |-> 0]
           /\ outcome' = [j \in 1..Len(m.jobs) |-> "none"]
           /\ sawDir' = [j \in 1..Len(m.jobs) |-> FALSE]
    /\ nextJob' = 1
    /\ pc' = "run"
    /\ UNCHANGED <<args, plugins, file, script, dirs, worker, fails, loaded, dirs0,
                   file0, fileReads, fileWrites>>
    /\ UNCHANGED spinVars

---------------------------------------------------------------------------
(* The worker pool: manager.run(install_plugin).  plugins.threads workers   *)
(* pull jobs from the shared queue until it is exhausted; run returns the   *)
(* names whose operation gave continue_flag = false once all have finished. *)

Active(w) == w \in 1..plugins.threads
QueueEmpty == nextJob > Len(jobs)
AllFinished == QueueEmpty /\ \A w \in Workers : worker[w] = Idle

\* (mutant) run gives up at the first failure
RunReturns_OnFailure == AllFinished \/ fails # {}

\* manager.run returns: the queue is drained and every worker has finished
RunReturns == AllFinished

\* (mutant) the job pulled stays at the head of the queue
Take_NoAdvance(w) ==
    /\ pc = "run"
    /\ Active(w)
    /\ worker[w] = Idle
    /\ ~QueueEmpty
    /\ started[nextJob] < 2
    /\ worker' = [worker EXCEPT ![w] = [st |-> "taken", job |-> nextJob]]
    /\ started' = [started EXCEPT ![nextJob] = @ + 1]
    /\ nextJob' = IF started[nextJob] = 0 THEN nextJob ELSE nextJob + 1
    /\ UNCHANGED <<pc, args, plugins, file, script, dirs, packs, jobs, fails, loaded,
                   dirs0, file0, outcome, sawDir, fileReads, fileWrites>>
    /\ UNCHANGED spinVars

\* a worker pulls the next job off the shared queue
Take(w) ==
    /\ pc = "run"
    /\ Active(w)
    /\ worker[w] = Idle
    /\ ~QueueEmpty
    /\ worker' = [worker EXCEPT ![w] = [st |-> "taken", job |-> nextJob]]
    /\ started' = [started EXCEPT ![nextJob] = @ + 1]
    /\ nextJob' = nextJob + 1
    /\ UNCHANGED <<pc, args, plugins, file, script, dirs, packs, jobs, fails, loaded,
                   dirs0, file0, outcome, sawDir, fileReads, fileWrites>>
    /\ UNCHANGED spinVars

\* install_plugin -> do_install: path.is_dir() decides between the
\* already-installed result and a clone
Begin(w) ==
    /\ pc = "run"
    /\ worker[w].st = "taken"
    /\ LET j == worker[w].job
       IN  /\ sawDir' = [sawDir EXCEPT ![j] = (path(jobs[j]) \in dirs)]
           /\ IF do_install_sees_dir(jobs[j], dirs)
              THEN /\ outcome' = [outcome EXCEPT ![j] = "PluginInstalled"]
                   /\ fails' = IF install_plugin_status("PluginInstalled")
                                THEN fails ELSE fails \cup {jobs[j].name}
                   /\ worker' = [worker EXCEPT ![w] = Idle]
              ELSE /\ worker' = [worker EXCEPT ![w] = [st |-> "cloning", job |-> j]]
                   /\ UNCHANGED <<outcome, fails>>
    /\ UNCHANGED <<pc, args, plugins, file, script, dirs, packs, jobs, nextJob, loaded,
                   dirs0, file0, started, fileReads, fileWrites>>
    /\ UNCHANGED spinVars

\* git::clone returns: on success the destination exists, on failure nothing
\* is left behind; install_plugin turns the result into the continue flag
CloneDone(w) ==
    /\ pc = "run"
    /\ worker[w].st = "cloning"
    /\ LET j == worker[w].job
       IN  \E res \in {"Ok", "CloneErr"} :
            /\ dirs' = IF res = "Ok" THEN dirs \cup {path(jobs[j])} ELSE dirs
            /\ outcome' = [outcome EXCEPT ![j] = res]
            /\ fails' = IF install_plugin_status(res)
                         THEN fails ELSE fails \cup {jobs[j].name}
    /\ worker' = [worker EXCEPT ![w] = Idle]
    /\ UNCHANGED <<pc, args, plugins, file, script, packs, jobs, nextJob, loaded,
                   dirs0, file0, started, sawDir, fileReads, fileWrites>>
    /\ UNCHANGED spinVars

---------------------------------------------------------------------------
(* src/cmd/install.rs: after manager.run *)

\* manager.run has returned: the failed names are dropped from the list
Prune ==
    /\ pc = "run"
    /\ RunReturns
    /\ packs' = Retain(packs, fails)
    /\ pc' = "persist"
    /\ UNCHANGED <<args, plugins, file, script, dirs, jobs, nextJob, worker, fails,
                   loaded, dirs0, file0, started, outcome, sawDir, fileReads, fileWrites>>
    /\ UNCHANGED spinVars

\* (mutant) the list is sorted and saved without waiting for manager.run
Persist_Early ==
    /\ pc = "run"
    /\ packs' = SortByName(packs)
    /\ script' = [written |-> TRUE, body |-> update_pac_plugin(packs')]
    /\ file' = save(packs')
    /\ fileWrites' = fileWrites + 1
    /\ pc' = "persisted"
    /\ UNCHANGED <<args, plugins, dirs, jobs, nextJob, worker, fails, loaded, dirs0,
                   file0, started, outcome, sawDir, fileReads>>
    /\ UNCHANGED spinVars

\* sort, then the loader script and the manifest are written; either write
\* may fail with an I/O error, which ends the run
Persist ==
    /\ pc = "persist"
    /\ packs' = SortByName(packs)
    /\ \E io \in {"ok", "script_err", "save_err"} :
          /\ script' = IF io = "script_err" THEN script
                        ELSE [written |-> TRUE, body |-> update_pac_plugin(packs')]
          /\ file' = IF io = "ok" THEN save(packs') ELSE file
          /\ fileWrites' = IF io = "ok" THEN fileWrites + 1 ELSE fileWrites
          /\ pc' = IF io = "ok" THEN "persisted" ELSE "io_error"
    /\ UNCHANGED <<args, plugins, dirs, jobs, nextJob, worker, fails, loaded, dirs0,
                   file0, started, outcome, sawDir, fileReads>>
    /\ UNCHANGED spinVars

Next ==
    \/ Exec
    \/ Fetch
    \/ Merge
    \/ \E w \in Workers : Take(w)
    \/ \E w \in Workers : Begin(w)
    \/ \E w \in Workers : CloneDone(w)
    \/ Prune
    \/ Persist

Spec == Init /\ [][Next]_vars

---------------------------------------------------------------------------
(* Properties of the install run *)

\* the records of the manifest file as it stands
Stored == IF fetch(file) = None THEN <<>> ELSE Unwrap(fetch(file))
StoredAs(n) == {i \in 1..Len(Stored) : Stored[i].name = n}
Requested == Range(plugins.names)
WasLoaded(n) == \E i \in 1..Len(loaded) : loaded[i].name = n
JobsOf(n) == {j \in 1..Len(jobs) : jobs[j].name = n}
CloneFailed(n) == \E j \in JobsOf(n) : outcome[j] = "CloneErr"
\* the record carries what the command line asked for
AsRequested(r) ==
    /\ r.category = plugins.category
    /\ r.opt = plugins.opt
    /\ r.load_command = plugins.on
    /\ r.for_types = (IF plugins.types = None THEN <<>> ELSE plugins.types[1])
    /\ r.build_command = plugins.build

\* C1: a requested name that had no record and whose install did not fail
\* has exactly one record in the persisted manifest, and that record carries
\* the requested category, opt, load_command, for_types and build_command,
\* also when the request names it more than once.
C1_NewRecordOnce ==
    pc = "persisted" =>
        \A n \in Requested :
            (~WasLoaded(n) /\ ~CloneFailed(n)) =>
                /\ Cardinality(StoredAs(n)) = 1
                /\ \A i \in StoredAs(n) : AsRequested(Stored[i])

\* a new name requested twice, with triggers, next to an older record
C1_Witness ==
    /\ pc = "persisted"
    /\ \E n \in Requested :
        /\ ~WasLoaded(n) /\ ~CloneFailed(n)
        /\ Cardinality(JobsOf(n)) >= 2
        /\ \E j \in JobsOf(n) : outcome[j] = "Ok"
        /\ plugins.on # None /\ plugins.build # None
        /\ Len(loaded) >= 1

\* C2: a package whose install failed with a clone failure has no record in
\* the manifest persisted at the end of the run.
C2_FailedClonePurged ==
    pc = "persisted" =>
        \A j \in 1..Len(jobs) :
            outcome[j] = "CloneErr" => StoredAs(jobs[j].name) = {}

\* a new name whose clone failed, persisted next to a surviving record
C2_Witness ==
    /\ pc = "persisted"
    /\ \E j \in 1..Len(jobs) :
        /\ outcome[j] = "CloneErr"
        /\ ~WasLoaded(jobs[j].name)
    /\ Len(Stored) >= 1

\* the run has reconciled the request: the jobs are known
Reconciled == pc \in {"run", "persist", "persisted", "io_error"}
InstalledBefore(r) == path(r) \in dirs0
PlacementDiffers(r) == r.category # plugins.category \/ r.opt # plugins.opt

\* C3: an installed record re-requested with another category or opt keeps
\* the category and opt it was loaded with in the persisted manifest, and
\* its install operation runs against the original placement.
C3_PlacementSticky ==
    \A i \in 1..Len(loaded) :
        LET r == loaded[i]
        IN  (Reconciled /\ r.name \in Requested /\ InstalledBefore(r)
                /\ PlacementDiffers(r)) =>
                /\ \A j \in JobsOf(r.name) :
                        jobs[j].category = r.category /\ jobs[j].opt = r.opt
                /\ pc = "persisted" =>
                        /\ StoredAs(r.name) # {}
                        /\ \A k \in StoredAs(r.name) :
                                Stored[k].category = r.category /\ Stored[k].opt = r.opt

\* an installed record requested under the other category and the other opt
C3_Witness ==
    /\ pc = "persisted"
    /\ \E i \in 1..Len(loaded) :
        /\ loaded[i].name \in Requested
        /\ InstalledBefore(loaded[i])
        /\ loaded[i].category # plugins.category
        /\ loaded[i].opt # plugins.opt
        /\ \A j \in JobsOf(loaded[i].name) : outcome[j] = "PluginInstalled"

\* C4: an installed record that is re-requested is persisted with the
\* load_command, for_types and build_command of the request.
C4_TriggersRefreshed ==
    \A i \in 1..Len(loaded) :
        (pc = "persisted" /\ loaded[i].name \in Requested /\ InstalledBefore(loaded[i])) =>
            \A k \in StoredAs(loaded[i].name) :
                /\ Stored[k].load_command = plugins.on
                /\ Stored[k].for_types = (IF plugins.types = None THEN <<>> ELSE plugins.types[1])
                /\ Stored[k].build_command = plugins.build

\* C5: a record that is in the manifest but not installed, re-requested with
\* another category and not failing, is persisted once, with the requested
\* category, opt, load_command, for_types and build_command.
C5_StaleSuperseded ==
    \A i \in 1..Len(loaded) :
        LET r == loaded[i]
        IN  (pc = "persisted" /\ r.name \in Requested /\ ~InstalledBefore(r)
                /\ r.category # plugins.category /\ ~CloneFailed(r.name)) =>
                /\ Cardinality(StoredAs(r.name)) = 1
                /\ \A k \in StoredAs(r.name) : AsRequested(Stored[k])

\* a stale record with triggers, requested without any under another category
C5_Witness ==
    /\ pc = "persisted"
    /\ \E i \in 1..Len(loaded) :
        /\ loaded[i].name \in Requested
        /\ ~InstalledBefore(loaded[i])
        /\ loaded[i].category # plugins.category
        /\ loaded[i].build_command # None /\ plugins.build = None
        /\ loaded[i].load_command # None /\ plugins.on = None
        /\ \E j \in JobsOf(loaded[i].name) : outcome[j] = "Ok"

\* C6: a job whose target directory exists when its operation runs attempts
\* no clone, returns the already-installed outcome with continue_flag = true,
\* and its name is never in the purge set: its record stays in the manifest.
C6_ExistingKept ==
    \A j \in 1..Len(jobs) :
        sawDir[j] =>
            /\ outcome[j] = "PluginInstalled"
            /\ install_plugin_status(outcome[j])
            /\ jobs[j].name \notin fails
            /\ pc = "persisted" => StoredAs(jobs[j].name) # {}

AllJobsDone == \A j \in 1..Len(jobs) : started[j] >= 1 /\ outcome[j] # "none"
AllIdle == \A w \in Workers : worker[w] = Idle

\* C7: whichever jobs fail, every job of the work list is started and
\* completed before the executor returns, and while a job is outstanding
\* some worker can always take a step: a failure neither aborts nor blocks.
C7_FailureIsolation ==
    /\ pc \in {"persist", "persisted", "io_error"} => AllJobsDone
    /\ (pc = "run" /\ ~AllJobsDone) =>
            \E w \in Workers : ENABLED (Take(w) \/ Begin(w) \/ CloneDone(w))

\* a job failed and a later job of the list was still cloned
C7_Witness ==
    /\ pc = "persisted"
    /\ \E j, k \in 1..Len(jobs) :
        /\ j < k
        /\ outcome[j] = "CloneErr"
        /\ outcome[k] = "Ok"

\* the pool runs, where the threads are scheduled and git::clone returns
FairSpec ==
    PoolInit /\ [][Next]_vars /\ \A w \in Workers : WF_vars(Take(w) \/ Begin(w) \/ CloneDone(w))

\* C8: with one or more workers on the shared queue every job is run in the
\* end, and no job is begun twice or held by two workers, in every
\* interleaving.
C8_EachJobOnce ==
    /\ [](\A j \in 1..Len(started) : started[j] <= 1)
    /\ [](\A v, w \in Workers :
            (v # w /\ worker[v].job # 0) => worker[v].job # worker[w].job)
    /\ [](pc = "run" => <>AllJobsDone)

\* two workers have run three jobs between them
C8_Witness ==
    /\ pc = "run"
    /\ plugins.threads >= 2
    /\ Len(jobs) >= 3
    /\ AllJobsDone
    /\ \A j \in 1..Len(jobs) : started[j] = 1

\* C9: the manifest file is read only before any worker has started and
\* written only after the last has finished; the purge set is consumed only
\* after all workers have finished; a worker's step never touches the file.
C9_ManifestBarrier ==
    [][/\ fileReads' # fileReads =>
            (jobs = <<>> /\ AllIdle /\ nextJob = 1)
       /\ (fileWrites' # fileWrites \/ file' # file) =>
            (AllJobsDone /\ AllIdle /\ QueueEmpty)
       /\ (pc = "run" /\ pc' # "run") =>
            (AllJobsDone /\ AllIdle /\ QueueEmpty)
       /\ (worker' # worker \/ nextJob' # nextJob) =>
            (file' = file /\ fileReads' = fileReads /\ fileWrites' = fileWrites)
      ]_vars

\* a manifest was read, two workers cloned, the manifest was written
C9_Witness ==
    /\ pc = "persisted"
    /\ fileReads = 1 /\ fileWrites = 1
    /\ plugins.threads >= 2
    /\ Cardinality({j \in 1..Len(jobs) : outcome[j] \in {"Ok", "CloneErr"}}) >= 2

MissingRequiredKey(doc) ==
    doc.name = None \/ doc.remote = None \/ doc.category = None \/ doc.opt = None
Unloadable(f) ==
    f.exists /\ (~f.parses \/ \E i \in 1..Len(f.docs) : MissingRequiredKey(f.docs[i]))

\* C10: when the manifest does not load the run ends aborted: no job is
\* queued, no worker starts, no directory changes, and neither the loader
\* script nor the manifest file is written.
C10_LoadFailureAborts ==
    /\ (Unloadable(file0) /\ pc \notin {"exec", "died", "fetch"}) => pc = "aborted"
    /\ pc = "aborted" =>
        /\ Unloadable(file0)
        /\ jobs = <<>> /\ started = <<>> /\ nextJob = 1 /\ AllIdle
        /\ dirs = dirs0
        /\ ~script.written
        /\ fileWrites = 0 /\ file = file0

\* a manifest whose second item lacks a key, with names requested
C10_Witness ==
    /\ pc = "aborted"
    /\ file0.parses /\ Len(file0.docs) = 2
    /\ ~MissingRequiredKey(file0.docs[1])
    /\ plugins.names # <<>>
    /\ plugins.threads >= 2

---------------------------------------------------------------------------
(* C11: a thread count of zero ends the run before anything is touched *)

\* C11: a run asked for zero threads never gets past exec: it dies there,
\* and when it has died the manifest was never read or written, no
\* directory and no script file was created, no job was queued or started
\* and no worker ever left the idle state.
C11_ZeroThreadsRejected ==
    /\ pc \notin {"exec", "died"} => plugins.threads >= 1
    /\ pc = "died" =>
        /\ args.threads = Some(0)
        /\ fileReads = 0 /\ fileWrites = 0
        /\ file = file0 /\ dirs = dirs0 /\ ~script.written
        /\ packs = <<>> /\ loaded = <<>> /\ jobs = <<>> /\ started = <<>>
        /\ AllIdle /\ fails = {}
    /\ (pc = "died") => ~ENABLED Next

C11_Witness ==
    /\ pc = "died"
    /\ args.plugins # <<>>
    /\ file0.exists /\ file0.parses /\ file0.docs # <<>>

---------------------------------------------------------------------------
(* C12: the persisted manifest is sorted by name *)

\* C12: once the run has persisted, the names of the stored records are in
\* non-decreasing order, whatever the loaded order, the order of the
\* request and the set of purged names.
C12_PersistedSorted ==
    pc = "persisted" =>
        \A i \in 1..Len(Stored) : \A k \in 1..Len(Stored) :
            i < k => Rank(Stored[i].name) <= Rank(Stored[k].name)

C12_Witness ==
    /\ pc = "persisted"
    /\ Len(Stored) = 2
    /\ Len(loaded) = 1 /\ loaded[1].name = "b"
    /\ plugins.names = <<"b", "a">>

---------------------------------------------------------------------------
(* src/package.rs: save and fetch applied on their own, to lists of        *)
(* records and to manifest files that the install command does not produce *)

MaxStore == 2      \* longest list of records saved, longest list of items loaded

\* records as Package::new and the setters can build them
PlainRecord == Package_new("a", "x", FALSE)
FullRecord ==
    [name |-> "b", remote |-> "b", reference |-> Some([kind |-> "tag", value |-> "v1"]),
     category |-> "y", opt |-> TRUE, load_command |-> Some("Cmd"),
     for_types |-> <<"rs", "vim">>, build_command |-> Some("make")]
StoreRecords ==
    {PlainRecord, FullRecord,
     [PlainRecord EXCEPT !.build_command = Some("true")],
     [PlainRecord EXCEPT !.load_command = Some("1")],
     [PlainRecord EXCEPT !.category = "1"],
     [PlainRecord EXCEPT !.for_types = <<"1">>],
     [PlainRecord EXCEPT !.reference = Some([kind |-> "tag", value |-> "1.0"])]}

\* list items as a hand-edited paconfig.yaml can hold them
PlainDoc == Doc("a", "x", FALSE, NoTriggers)
FullDoc ==
    [Doc("b", "y", TRUE, OldTriggers) EXCEPT
        !.ref = Some(<<[k |-> Some("tag"), v |-> Some("v1")]>>)]
OddDocs ==
    {[PlainDoc EXCEPT !.on = Other("1")],
     [PlainDoc EXCEPT !.build = Other("true")],
     [PlainDoc EXCEPT !.for = Other("rs")],
     [PlainDoc EXCEPT !.for = Some(<<Some("rs"), Other("1")>>)],
     [PlainDoc EXCEPT !.ref = Other("v1")],
     [PlainDoc EXCEPT !.ref = Some(<<>>)],
     [PlainDoc EXCEPT !.ref = Some(<<[k |-> Some("fork"), v |-> Some("v1")]>>)],
     [PlainDoc EXCEPT !.ref = Some(<<[k |-> Some("tag"), v |-> Other("1.0")]>>)],
     [PlainDoc EXCEPT !.name = Other("1")],
     [PlainDoc EXCEPT !.opt = Other("yes")]}
StoreDocs == {PlainDoc, FullDoc} \cup BadDocs \cup OddDocs
StoreFiles ==
    {NoFile, Garbage}
        \cup {[exists |-> TRUE, parses |-> TRUE, docs |-> ds] :
                ds \in SeqsUpTo(StoreDocs, MaxStore)}

StoreInit ==
    /\ \/ pc = "save" /\ packs \in SeqsUpTo(StoreRecords, MaxStore) /\ file = NoFile
       \/ pc = "load" /\ packs = <<>> /\ file \in StoreFiles
    /\ args = Moved
    /\ plugins = Moved
    /\ script = [written |-> FALSE, body |-> <<>>]
    /\ dirs = {}
    /\ dirs0 = dirs
    /\ file0 = file
    /\ jobs = <<>>
    /\ nextJob = 1
    /\ worker = [w \in Workers |-> Idle]
    /\ fails = {}
    /\ loaded = <<>>
    /\ started = <<>>
    /\ outcome = <<>>
    /\ sawDir = <<>>
    /\ fileReads = 0
    /\ fileWrites = 0
    /\ NoSpinner

\* package::save(packs)
SaveList ==
    /\ pc = "save"
    /\ file' = save(packs)
    /\ fileWrites' = fileWrites + 1
    /\ pc' = "load"
    /\ UNCHANGED <<args, plugins, script, dirs, packs, jobs, nextJob, worker, fails,
                   loaded, dirs0, file0, started, outcome, sawDir, fileReads>>
    /\ UNCHANGED spinVars

\* package::fetch()
LoadList ==
    /\ pc = "load"
    /\ fileReads' = IF file.exists THEN fileReads + 1 ELSE fileReads
    /\ IF fetch(file) = None
       THEN /\ pc' = "load_err"
            /\ UNCHANGED loaded
       ELSE /\ pc' = "load_ok"
            /\ loaded' = Unwrap(fetch(file))
    /\ UNCHANGED <<args, plugins, file, script, dirs, packs, jobs, nextJob, worker,
                   fails, dirs0, file0, started, outcome, sawDir, fileWrites>>
    /\ UNCHANGED spinVars

StoreNext == SaveList \/ LoadList
StoreSpec == StoreInit /\ [][StoreNext]_vars

---------------------------------------------------------------------------
(* C13: a saved list is loaded back as it was *)

SavedAndLoaded == pc \in {"load_ok", "load_err"} /\ fileWrites = 1

\* C13: whenever a list of records has been saved and the file loaded again,
\* the load succeeds and yields the saved list: the same records in the same
\* order, equal in name, remote, category, opt, reference, load_command,
\* for_types and build_command.
C13_RoundTrip ==
    SavedAndLoaded => (pc = "load_ok" /\ loaded = packs)

---------------------------------------------------------------------------
(* C14: a load yields every record of the file or none *)

LoadedAsFound == pc \in {"load_ok", "load_err"} /\ fileWrites = 0
LoadRefused == pc = "load_err" /\ loaded = <<>>

\* the optional keys of an item that hold something else than a string (on,
\* build), a list of strings (for) or a one-entry mapping of a reference
\* kind to a string (ref)
OddRef(doc) ==
    /\ Len(doc.ref) = 1
    /\ \/ doc.ref[1] = <<>>
       \/ /\ doc.ref[1] # <<>>
          /\ \/ Len(doc.ref[1][1].k) # 1
             \/ Len(doc.ref[1][1].v) # 1
             \/ Len(doc.ref[1][1].k) = 1 /\ doc.ref[1][1].k[1] \notin RefKinds
OddForElement(doc) ==
    Len(doc.for) = 1 /\ \E i \in 1..Len(doc.for[1]) : Len(doc.for[1][i]) # 1
MalformedOptional(doc) ==
    \/ Len(doc.on) = 2 \/ Len(doc.build) = 2
    \/ Len(doc.for) = 2 \/ OddForElement(doc)
    \/ Len(doc.ref) = 2 \/ OddRef(doc)
RequiredUnreadable(doc) ==
    Len(doc.name) # 1 \/ Len(doc.remote) # 1 \/ Len(doc.category) # 1 \/ Len(doc.opt) # 1

\* C14 as stated: with no file the load yields the empty list without an
\* error; with a file in which some item lacks name, remote, category or opt,
\* or has a malformed optional key, the load is an error and yields no record.
C14_LoadAllOrNothing ==
    LoadedAsFound =>
        /\ ~file.exists => (pc = "load_ok" /\ loaded = <<>>)
        /\ (file.exists /\ \E i \in 1..Len(file.docs) :
                MissingRequiredKey(file.docs[i]) \/ MalformedOptional(file.docs[i]))
            => LoadRefused

\* C14 (amended): with no file the load yields the empty list without an
\* error; with a file in which some item lacks name, remote, category or opt
\* (or holds them with another type), has an element of `for` that is no
\* string, or has a `ref` mapping that is empty, has a key or value that is
\* no string or names no reference kind, the load is an error and yields no
\* record; a file in which no item is of that sort loads whole, one record
\* per item, and an `on` or `build` that is no string, a `for` that is no
\* list and a `ref` that is no mapping are read as absent.
C14_LoadAllOrNothing_Amended ==
    LoadedAsFound =>
        /\ ~file.exists => (pc = "load_ok" /\ loaded = <<>>)
        /\ (file.exists /\ \E i \in 1..Len(file.docs) :
                \/ RequiredUnreadable(file.docs[i])
                \/ OddForElement(file.docs[i]) \/ OddRef(file.docs[i]))
            => LoadRefused
        /\ (file.exists /\ file.parses /\ \A i \in 1..Len(file.docs) :
                /\ ~RequiredUnreadable(file.docs[i])
                /\ ~OddForElement(file.docs[i]) /\ ~OddRef(file.docs[i]))
            => /\ pc = "load_ok"
               /\ Len(loaded) = Len(file.docs)
               /\ \A i \in 1..Len(file.docs) :
                    /\ loaded[i].name = file.docs[i].name[1]
                    /\ Len(file.docs[i].on) = 2 => loaded[i].load_command = None
                    /\ Len(file.docs[i].build) = 2 => loaded[i].build_command = None
                    /\ Len(file.docs[i].for) = 2 => loaded[i].for_types = <<>>
                    /\ Len(file.docs[i].ref) = 2 => loaded[i].reference = None

C14_Witness ==
    /\ LoadedAsFound
    /\ Len(file.docs) = 2
    /\ file.docs[1] = PlainDoc
    /\ OddForElement(file.docs[2])
    /\ pc = "load_err"

---------------------------------------------------------------------------
(* C15: names stay unique *)

\* C15: when the loaded names are pairwise distinct, so are the names of the
\* list after the merge and the names of the persisted manifest, also when
\* the request repeats a name.
C15_NamesUnique ==
    DistinctNames(loaded) =>
        /\ Reconciled => DistinctNames(packs)
        /\ pc = "persisted" => DistinctNames(Stored)

C15_Witness ==
    /\ pc = "persisted"
    /\ plugins.names = <<"a", "b", "a">>
    /\ loaded = <<>>
    /\ Len(Stored) = 2

---------------------------------------------------------------------------
(* C16: an empty request installs the backlog *)

\* C16: with an empty request the work list is the loaded list, one job per
\* loaded record with the loaded fields, and the persisted manifest holds
\* exactly the loaded records whose name is not in the purge set, sorted by
\* name.
C16_EmptyRequestBacklog ==
    (Reconciled /\ plugins.names = <<>>) =>
        /\ jobs = loaded
        /\ pc = "persisted" =>
            /\ \A i \in 1..Len(loaded) :
                    loaded[i].name \notin fails <=>
                        \E k \in 1..Len(Stored) : Stored[k] = loaded[i]
            /\ Len(Stored) = Cardinality({i \in 1..Len(loaded) : loaded[i].name \notin fails})
            /\ \A i \in 1..Len(Stored) : \A k \in 1..Len(Stored) :
                    i < k => Rank(Stored[i].name) <= Rank(Stored[k].name)

C16_Witness ==
    /\ pc = "persisted"
    /\ plugins.names = <<>>
    /\ Len(loaded) = 2
    /\ fails = {"a"}
    /\ Len(Stored) = 1

---------------------------------------------------------------------------
(* C17: the work list of a non-empty request *)

\* C17: with a non-empty request the work list holds exactly one job for
\* every requested name and no job for a name that was not requested, also
\* when the request repeats a name.
C17_OneJobPerName ==
    (Reconciled /\ plugins.names # <<>>) =>
        /\ \A n \in Requested : Cardinality(JobsOf(n)) = 1
        /\ \A j \in 1..Len(jobs) : jobs[j].name \in Requested

---------------------------------------------------------------------------
(* C18: records that were not requested are left alone *)

\* C18: with a non-empty request every loaded record whose name was not
\* requested is in the persisted manifest, once and unchanged; a name that
\* was loaded or requested is missing from the persisted manifest only if a
\* clone of one of its jobs failed in this run.
C18_UnrequestedKept ==
    (pc = "persisted" /\ plugins.names # <<>>) =>
        /\ \A i \in 1..Len(loaded) :
                loaded[i].name \notin Requested =>
                    /\ Cardinality(StoredAs(loaded[i].name)) = 1
                    /\ \E k \in 1..Len(Stored) : Stored[k] = loaded[i]
        /\ \A n \in Names :
                ((WasLoaded(n) \/ n \in Requested) /\ StoredAs(n) = {}) => CloneFailed(n)

C18_Witness ==
    /\ pc = "persisted"
    /\ plugins.names = <<"a">>
    /\ Len(loaded) = 2
    /\ CloneFailed("a")
    /\ Len(Stored) = 1 /\ Stored[1].name = "b"

---------------------------------------------------------------------------
(* C19: what the manifest lists is on disk *)

\* C19: after the manifest is persisted, every persisted record whose name
\* had a job in the work list is installed: the directory that its persisted
\* category, opt and name designate exists.
C19_PersistedInstalled ==
    pc = "persisted" =>
        \A k \in 1..Len(Stored) :
            JobsOf(Stored[k].name) # {} => is_installed(Stored[k], dirs)

C19_Witness ==
    /\ pc = "persisted"
    /\ \E k \in 1..Len(Stored) :
            /\ \E j \in JobsOf(Stored[k].name) : outcome[j] = "Ok"
            /\ ~is_installed(Stored[k], dirs0)
            /\ WasLoaded(Stored[k].name)

---------------------------------------------------------------------------
(* C20: one clone per destination *)

Cloned(j) == outcome[j] \in {"Ok", "CloneErr"}

\* C20: no two workers are cloning into the same directory at the same time,
\* no two jobs of a run have cloned into the same directory, and a name of
\* which a job was cloned successfully is not in the purge set.
C20_OneClonePerPath ==
    Reconciled =>
        /\ \A v \in Workers : \A w \in Workers :
                (v # w /\ worker[v].st = "cloning" /\ worker[w].st = "cloning")
                    => path(jobs[worker[v].job]) # path(jobs[worker[w].job])
        /\ \A i \in 1..Len(jobs) : \A j \in 1..Len(jobs) :
                (i # j /\ Cloned(i) /\ Cloned(j)) => path(jobs[i]) # path(jobs[j])
        /\ \A j \in 1..Len(jobs) : outcome[j] = "Ok" => jobs[j].name \notin fails

---------------------------------------------------------------------------
(* src/utils.rs: the Spinner.  spin creates a channel and spawns a thread  *)
(* that redraws one character every 100 ms; stop sends on the channel and  *)
(* joins the thread.                                                       *)

MaxCoord == 1      \* largest screen coordinate given to spin
Coords == 0..MaxCoord

\* the ten frames of SPINNER_CHARS, by name
SPINNER_CHARS == <<"f0", "f1", "f2", "f3", "f4", "f5", "f6", "f7", "f8", "f9">>

\* (mutant) the receiver never finds a message
try_recv_Empty(ch) == None

\* rx.try_recv(): Ok(message) is Some(message), Err(Empty) is None
try_recv(ch) == IF ch # <<>> THEN Some(Head(ch)) ELSE None

SpinInit ==
    /\ pc = "spin"
    /\ args = Moved
    /\ plugins = Moved
    /\ file = NoFile
    /\ script = [written |-> FALSE, body |-> <<>>]
    /\ dirs = {}
    /\ dirs0 = dirs
    /\ file0 = file
    /\ packs = <<>>
    /\ jobs = <<>>
    /\ nextJob = 1
    /\ worker = [w \in Workers |-> Idle]
    /\ fails = {}
    /\ loaded = <<>>
    /\ started = <<>>
    /\ outcome = <<>>
    /\ sawDir = <<>>
    /\ fileReads = 0
    /\ fileWrites = 0
    /\ NoSpinner

InstallVars == <<pc, args, plugins, file, script, dirs, packs, jobs, nextJob, worker,
                 fails, loaded, dirs0, file0, started, outcome, sawDir, fileReads,
                 fileWrites>>

\* Spinner::spin(x, y): the channel is created, the thread spawned
Spin ==
    /\ pc = "spin"
    /\ spin_pc = "none"
    /\ \E x \in Coords : \E y \in Coords : pos' = <<x, y>>
    /\ spin_pc' = "top"
    /\ stop_pc' = "held"
    /\ UNCHANGED <<rx, frame, screen>>
    /\ UNCHANGED InstallVars

\* the thread, top of the loop: if rx.try_recv().is_ok() { break; }
SpinTop ==
    /\ spin_pc = "top"
    /\ IF IsSome(try_recv(rx))
       THEN /\ rx' = Tail(rx)
            /\ spin_pc' = "exited"
       ELSE /\ spin_pc' = "echo"
            /\ UNCHANGED rx
    /\ UNCHANGED <<stop_pc, frame, pos, screen>>
    /\ UNCHANGED InstallVars

\* the thread: echo::character(x, y, c, color::Reset)
SpinEcho ==
    /\ spin_pc = "echo"
    /\ screen' = Some(SPINNER_CHARS[frame + 1])
    /\ spin_pc' = "sleep"
    /\ UNCHANGED <<stop_pc, rx, frame, pos>>
    /\ UNCHANGED InstallVars

\* the thread: thread::sleep(100 ms) ends, cycle() yields the next character
SpinSleep ==
    /\ spin_pc = "sleep"
    /\ frame' = (frame + 1) % Len(SPINNER_CHARS)
    /\ spin_pc' = "top"
    /\ UNCHANGED <<stop_pc, rx, pos, screen>>
    /\ UNCHANGED InstallVars

\* Spinner::stop: self.tx.send(true).unwrap(); send is Err when the receiver
\* is gone, and unwrap then panics
StopSend ==
    /\ stop_pc = "held"
    /\ IF spin_pc = "exited"
       THEN /\ stop_pc' = "panicked"
            /\ UNCHANGED rx
       ELSE /\ rx' = Append(rx, TRUE)
            /\ stop_pc' = "join"
    /\ UNCHANGED <<spin_pc, frame, pos, screen>>
    /\ UNCHANGED InstallVars

\* Spinner::stop: self.handle.join().unwrap() returns when the thread has ended
Join ==
    /\ stop_pc = "join"
    /\ spin_pc = "exited"
    /\ stop_pc' = "returned"
    /\ UNCHANGED <<spin_pc, rx, frame, pos, screen>>
    /\ UNCHANGED InstallVars

SpinNext == Spin \/ SpinTop \/ SpinEcho \/ SpinSleep \/ StopSend \/ Join

\* the spawned thread is scheduled and its sleep ends; join returns once the
\* thread has ended.  When stop is called is up to the owner of the Spinner.
SpinSpec ==
    /\ SpinInit
    /\ [][SpinNext]_vars
    /\ WF_vars(SpinTop \/ SpinEcho \/ SpinSleep)
    /\ WF_vars(Join)

---------------------------------------------------------------------------
(* C21: the spinner is shut down by stop *)

\* C21: once stop has sent its notification (the only message ever sent) the
\* spinner thread eventually exits, and it exits only from the top of its
\* loop, on finding the message; stop eventually returns, it returns only
\* when the thread has ended, and its send never fails.
C21_SpinnerShutdown ==
    /\ [](stop_pc = "returned" => spin_pc = "exited")
    /\ [](stop_pc # "panicked" /\ Len(rx) <= 1)
    /\ [][(spin_pc # "exited" /\ spin_pc' = "exited")
            => (spin_pc = "top" /\ rx # <<>> /\ stop_pc = "join")]_vars
    /\ (stop_pc = "join" ~> spin_pc = "exited")
    /\ (stop_pc = "join" ~> stop_pc = "returned")

C21_Witness ==
    /\ stop_pc = "returned"
    /\ spin_pc = "exited"
    /\ frame = 3
    /\ screen = Some("f2")
    /\ rx = <<>>

================================================================
